---- MODULE Spec2Model ----
(***************************************************************************)
(* A model of GrowableBitMap (src/src/lib.rs): a growable bitmap stored in *)
(* a Vec<u8>.  The state of one instance is the word sequence `bits` and   *)
(* the Vec's reserved capacity `cap` (in words).  Every public method is   *)
(* an operator computed the way the method computes it, and an action that *)
(* applies it and records the call (op, index, ret).                       *)
(***************************************************************************)
EXTENDS Integers, Sequences, FiniteSets

VARIABLES
    bits,     \* self.bits: the stored words, each a u8
    cap,      \* self.bits.capacity(): words reserved by the Vec
    op,       \* name of the last method called on the instance
    index,    \* its argument (0 when it takes none)
    ret,      \* its return value (FALSE when it returns nothing)
    other     \* a second instance: [bits, cap, op]

vars == <<bits, cap, op, index, ret, other>>

----------------------------------------------------------------------------
\* Program constants.
BITS_IN_BYTE == 8
BITS_BY_STORAGE == 8
\* Largest value of the storage type u8.
U8_MAX == 255

\* Bounds of the model.
\* Largest word index the single-instance specification writes to.
MaxWordIndex == 2
\* Largest capacity hint given to with_capacity.
MaxHint == 17
\* Largest word index the two-instance specification writes to.
PairMaxWordIndex == 1

\* Bit offsets inside a word that the calls use: lowest and highest bit.
Offsets == {0, BITS_BY_STORAGE - 1}
Indices == {w * BITS_BY_STORAGE + o : w \in 0..MaxWordIndex, o \in Offsets}
\* The two-instance specification uses the highest bit of each word.
PairIndices == {w * BITS_BY_STORAGE + (BITS_BY_STORAGE - 1) : w \in 0..PairMaxWordIndex}
Hints == 0..MaxHint

----------------------------------------------------------------------------
\* u8 arithmetic.

RECURSIVE Pow2(_)
Pow2(n) == IF n = 0 THEN 1 ELSE 2 * Pow2(n - 1)

\* x & y on n-bit words.
RECURSIVE BitAndN(_, _, _)
BitAndN(x, y, n) ==
    IF n = 0 THEN 0
    ELSE (IF x % 2 = 1 /\ y % 2 = 1 THEN 1 ELSE 0)
         + 2 * BitAndN(x \div 2, y \div 2, n - 1)

\* x | y on n-bit words.
RECURSIVE BitOrN(_, _, _)
BitOrN(x, y, n) ==
    IF n = 0 THEN 0
    ELSE (IF x % 2 = 1 \/ y % 2 = 1 THEN 1 ELSE 0)
         + 2 * BitOrN(x \div 2, y \div 2, n - 1)

\* Both operators on u8, tabulated once over all pairs of u8 values.
AndTable == [x \in 0..U8_MAX |-> [y \in 0..U8_MAX |-> BitAndN(x, y, BITS_IN_BYTE)]]
OrTable == [x \in 0..U8_MAX |-> [y \in 0..U8_MAX |-> BitOrN(x, y, BITS_IN_BYTE)]]
BitAnd(x, y) == AndTable[x][y]
BitOr(x, y) == OrTable[x][y]
\* !x on a u8.
BitNot(x) == U8_MAX - x

\* 1 << (index - bits_index * BITS_IN_BYTE), typed u8 by its use with a word.
Mask(idx, bits_index) == Pow2(idx - bits_index * BITS_IN_BYTE) % (U8_MAX + 1)

\* A population count that only tells a zero word from a nonzero one.
PopCountNonZero(x) == IF x = 0 THEN 0 ELSE 1

\* u8::count_ones
RECURSIVE PopCount(_)
PopCount(x) == IF x = 0 THEN 0 ELSE (x % 2) + PopCount(x \div 2)

----------------------------------------------------------------------------
\* Vec<u8> storage.

Max(a, b) == IF a >= b THEN a ELSE b

\* Vec::resize(new_len, 0) when new_len > len: the new capacity.  The Vec
\* keeps its buffer when it is large enough and otherwise grows it to
\* max(2 * cap, new_len, 8).
GrowAmortized(c, new_len) ==
    IF new_len <= c THEN c ELSE Max(Max(2 * c, new_len), 8)

\* The new words of Vec::resize(new_len, 0), all zero.
Zeros(n) == [k \in 1..n |-> 0]

----------------------------------------------------------------------------
\* The methods of GrowableBitMap.

new == [bits |-> <<>>, cap |-> 0]

\* with_capacity without the round-up term `rem`.
with_capacity_round_down(capacity) ==
    IF capacity = 0 THEN new
    ELSE [bits |-> <<>>, cap |-> capacity \div BITS_BY_STORAGE]

with_capacity(capacity) ==
    IF capacity = 0 THEN new
    ELSE LET div == capacity \div BITS_BY_STORAGE
             rem == IF capacity % BITS_BY_STORAGE # 0 THEN 1 ELSE 0
         IN  [bits |-> <<>>, cap |-> div + rem]

\* is_empty without the scan of the stored words.
is_empty_len_only(b) == Len(b) = 0

is_empty(b) == Len(b) = 0 \/ \A k \in 1..Len(b) : b[k] = 0

get_bit(b, idx) ==
    LET bits_index == idx \div BITS_BY_STORAGE
    IN  IF Len(b) <= bits_index THEN FALSE
        ELSE LET elem == b[bits_index + 1]
                 mask == Mask(idx, bits_index)
             IN  BitAnd(elem, mask) # 0

\* set_bit reporting `prev != 0`.
set_bit_ret_inverted(b, c, idx) ==
    LET bits_index == idx \div BITS_BY_STORAGE
        grow == Len(b) <= bits_index
        resized == IF grow THEN b \o Zeros(bits_index + 1 - Len(b)) ELSE b
        newcap == IF grow THEN GrowAmortized(c, bits_index + 1) ELSE c
        elem == resized[bits_index + 1]
        mask == Mask(idx, bits_index)
        prev == BitAnd(elem, mask)
    IN  [bits |-> [resized EXCEPT ![bits_index + 1] = BitOr(elem, mask)],
         cap |-> newcap,
         ret |-> (prev # 0)]

set_bit(b, c, idx) ==
    LET bits_index == idx \div BITS_BY_STORAGE
        grow == Len(b) <= bits_index
        resized == IF grow THEN b \o Zeros(bits_index + 1 - Len(b)) ELSE b
        newcap == IF grow THEN GrowAmortized(c, bits_index + 1) ELSE c
        elem == resized[bits_index + 1]
        mask == Mask(idx, bits_index)
        prev == BitAnd(elem, mask)
    IN  [bits |-> [resized EXCEPT ![bits_index + 1] = BitOr(elem, mask)],
         cap |-> newcap,
         ret |-> (prev = 0)]

\* clear_bit masking with `mask` where the code masks with `!mask`.
clear_bit_no_complement(b, idx) ==
    LET bits_index == idx \div BITS_BY_STORAGE
    IN  IF Len(b) <= bits_index THEN [bits |-> b, ret |-> FALSE]
        ELSE LET elem == b[bits_index + 1]
                 mask == Mask(idx, bits_index)
                 prev == BitOr(elem, BitNot(mask))
             IN  [bits |-> [b EXCEPT ![bits_index + 1] = BitAnd(elem, mask)],
                  ret |-> (prev # 0)]

\* clear_bit popping the last word when the call leaves it zero.
clear_bit_pop(b, idx) ==
    LET bits_index == idx \div BITS_BY_STORAGE
    IN  IF Len(b) <= bits_index THEN [bits |-> b, ret |-> FALSE]
        ELSE LET elem == b[bits_index + 1]
                 mask == Mask(idx, bits_index)
                 prev == BitOr(elem, BitNot(mask))
                 cleared == [b EXCEPT ![bits_index + 1] = BitAnd(elem, BitNot(mask))]
             IN  [bits |-> IF cleared[Len(b)] = 0
                           THEN SubSeq(cleared, 1, Len(b) - 1) ELSE cleared,
                  ret |-> (prev # 0)]

clear_bit(b, idx) ==
    LET bits_index == idx \div BITS_BY_STORAGE
    IN  IF Len(b) <= bits_index THEN [bits |-> b, ret |-> FALSE]
        ELSE LET elem == b[bits_index + 1]
                 mask == Mask(idx, bits_index)
                 prev == BitOr(elem, BitNot(mask))
             IN  [bits |-> [b EXCEPT ![bits_index + 1] = BitAnd(elem, BitNot(mask))],
                  ret |-> (prev # 0)]

\* clear replacing the Vec by a fresh one, which releases the buffer.
clear_free(b, c) == [bits |-> <<>>, cap |-> 0]

\* Vec::clear: the length drops to zero, the capacity stays.
clear(b, c) == [bits |-> <<>>, cap |-> c]

RECURSIVE SumOnes(_, _)
SumOnes(b, n) == IF n = 0 THEN 0 ELSE PopCount(b[n]) + SumOnes(b, n - 1)

count_ones(b) == SumOnes(b, Len(b))

capacity(c) == c * BITS_BY_STORAGE

\* filter in place of skip_while: the number of nonzero words.
FilterNonZeroCount(b, n) == Cardinality({k \in 1..n : b[k] # 0})

\* bits.iter().rev().skip_while(|store| store == 0).count(), scanning the
\* first n words from the last one down.
RECURSIVE SkipWhileZeroCount(_, _)
SkipWhileZeroCount(b, n) ==
    IF n = 0 THEN 0
    ELSE IF b[n] = 0 THEN SkipWhileZeroCount(b, n - 1)
    ELSE n

\* shrink_to_fit without the truncate: only the Vec's slack is released.
shrink_to_fit_no_truncate(b, c) == [bits |-> b, cap |-> Len(b)]

shrink_to_fit(b, c) ==
    LET last_set_bit_index == SkipWhileZeroCount(b, Len(b))
        truncated == SubSeq(b, 1, last_set_bit_index)
    IN  [bits |-> truncated,
         cap |-> IF c > Len(truncated) THEN Len(truncated) ELSE c]

\* derive(PartialEq): two instances are equal when their Vecs are.
Eq(b1, b2) == b1 = b2

----------------------------------------------------------------------------
\* The state machine of one instance.

Init ==
    /\ \/ /\ op = "new"
          /\ index = 0
          /\ bits = new.bits
          /\ cap = new.cap
       \/ \E n \in Hints :
            /\ op = "with_capacity"
            /\ index = n
            /\ bits = with_capacity(n).bits
            /\ cap = with_capacity(n).cap
    /\ ret = FALSE
    /\ other = [bits |-> new.bits, cap |-> new.cap, op |-> "new"]

SetBit(i) ==
    LET r == set_bit(bits, cap, i)
    IN  /\ bits' = r.bits
        /\ cap' = r.cap
        /\ op' = "set_bit"
        /\ index' = i
        /\ ret' = r.ret
        /\ UNCHANGED other

ClearBit(i) ==
    LET r == clear_bit(bits, i)
    IN  /\ bits' = r.bits
        /\ op' = "clear_bit"
        /\ index' = i
        /\ ret' = r.ret
        /\ UNCHANGED <<cap, other>>

Clear ==
    LET r == clear(bits, cap)
    IN  /\ bits' = r.bits
        /\ cap' = r.cap
        /\ op' = "clear"
        /\ index' = 0
        /\ ret' = FALSE
        /\ UNCHANGED other

ShrinkToFit ==
    LET r == shrink_to_fit(bits, cap)
    IN  /\ bits' = r.bits
        /\ cap' = r.cap
        /\ op' = "shrink_to_fit"
        /\ index' = 0
        /\ ret' = FALSE
        /\ UNCHANGED other

GetBit(i) ==
    /\ op' = "get_bit"
    /\ index' = i
    /\ ret' = get_bit(bits, i)
    /\ UNCHANGED <<bits, cap, other>>

IsEmpty ==
    /\ op' = "is_empty"
    /\ index' = 0
    /\ ret' = is_empty(bits)
    /\ UNCHANGED <<bits, cap, other>>

CountOnes ==
    /\ op' = "count_ones"
    /\ index' = 0
    /\ ret' = count_ones(bits)
    /\ UNCHANGED <<bits, cap, other>>

Capacity ==
    /\ op' = "capacity"
    /\ index' = 0
    /\ ret' = capacity(cap)
    /\ UNCHANGED <<bits, cap, other>>

Next ==
    \/ \E i \in Indices : SetBit(i)
    \/ \E i \in Indices : ClearBit(i)
    \/ Clear
    \/ ShrinkToFit
    \/ \E i \in Indices : GetBit(i)
    \/ IsEmpty
    \/ CountOnes
    \/ Capacity

Spec == Init /\ [][Next]_vars

----------------------------------------------------------------------------
\* Two instances, each changed by its own calls.

OtherSetBit(i) ==
    LET r == set_bit(other.bits, other.cap, i)
    IN  /\ other' = [bits |-> r.bits, cap |-> r.cap, op |-> "set_bit"]
        /\ UNCHANGED <<bits, cap, op, index, ret>>

OtherClearBit(i) ==
    LET r == clear_bit(other.bits, i)
    IN  /\ other' = [bits |-> r.bits, cap |-> other.cap, op |-> "clear_bit"]
        /\ UNCHANGED <<bits, cap, op, index, ret>>

OtherClear ==
    LET r == clear(other.bits, other.cap)
    IN  /\ other' = [bits |-> r.bits, cap |-> r.cap, op |-> "clear"]
        /\ UNCHANGED <<bits, cap, op, index, ret>>

OtherShrinkToFit ==
    LET r == shrink_to_fit(other.bits, other.cap)
    IN  /\ other' = [bits |-> r.bits, cap |-> r.cap, op |-> "shrink_to_fit"]
        /\ UNCHANGED <<bits, cap, op, index, ret>>

NextPair ==
    \/ \E i \in PairIndices : SetBit(i)
    \/ \E i \in PairIndices : ClearBit(i)
    \/ Clear
    \/ ShrinkToFit
    \/ \E i \in PairIndices : OtherSetBit(i)
    \/ \E i \in PairIndices : OtherClearBit(i)
    \/ OtherClear
    \/ OtherShrinkToFit

SpecPair == Init /\ [][NextPair]_vars

----------------------------------------------------------------------------
\* The logical value of a word sequence: the indices that read as set.
\* Every index at or beyond the word after the last one reads as unset by
\* get_bit's length test, so one word beyond the storage stands for them.
BitsOf(b) == {i \in 0..((Len(b) + 1) * BITS_BY_STORAGE - 1) : get_bit(b, i)}

----------------------------------------------------------------------------
\* Properties.  The calls are read off the call record: a step with
\* op' = "m" is a call of method m with argument index' returning ret'.

\* C1: clear_bit(i) returns true if and only if get_bit(i) was true just
\* before the call; it returns false when bit i was already 0, whether its
\* word is stored or not.
C1_ClearBitReturnsWasSet ==
    [][op' = "clear_bit" => (ret' = get_bit(bits, index'))]_vars

\* C2: set_bit(i) returns true if and only if get_bit(i) was false just
\* before the call, growth included; a set_bit(i) that directly follows a
\* set_bit(i) returns false; and a set bit i stays set through every call
\* but clear_bit(i) and clear(), so that the next set_bit(i) returns false.
C2_SetBitReturnsWasUnset ==
    [][/\ op' = "set_bit" =>
            /\ ret' = ~get_bit(bits, index')
            /\ (op = "set_bit" /\ index = index') => (ret' = FALSE)
       /\ \A i \in BitsOf(bits) :
            get_bit(bits', i) \/ op' = "clear" \/ (op' = "clear_bit" /\ index' = i)]_vars

\* A set_bit call found its bit already set, with another bit set as well.
C2_Witness ==
    /\ op = "set_bit"
    /\ ret = FALSE
    /\ Cardinality(BitsOf(bits)) >= 2

\* C3: set_bit(i) leaves bit i set, clear_bit(i) leaves bit i unset, and
\* both leave get_bit(j) as it was for every j # i, the indices of newly
\* created words and of i's own word included.
C3_SingleBitWrite ==
    [][/\ op' = "set_bit" =>
            /\ get_bit(bits', index')
            /\ BitsOf(bits') \ {index'} = BitsOf(bits) \ {index'}
       /\ op' = "clear_bit" =>
            /\ ~get_bit(bits', index')
            /\ BitsOf(bits') \ {index'} = BitsOf(bits) \ {index'}]_vars

\* A clear_bit call on a word that still holds another set bit, with an
\* all-zero word stored before a nonzero one.
C3_Witness ==
    /\ op = "clear_bit"
    /\ Len(bits) = MaxWordIndex + 1
    /\ bits[2] = 0
    /\ \E j \in BitsOf(bits) : j # index /\ j \div BITS_BY_STORAGE = index \div BITS_BY_STORAGE

\* C4: count_ones() is the number of indices for which get_bit is true.
C4_CountOnesIsCardinality ==
    count_ones(bits) = Cardinality(BitsOf(bits))

\* Three bits set, two of them in one word, and a trailing zero word.
C4_Witness ==
    /\ count_ones(bits) = 3
    /\ Len(bits) = MaxWordIndex + 1
    /\ bits[Len(bits)] = 0
    /\ \E k \in 1..Len(bits) : PopCount(bits[k]) = 2

\* C5: shrink_to_fit() leaves the prefix of the word sequence that ends at
\* its last nonzero word (empty if there is none), changes get_bit for no
\* index, and leaves capacity() at 8 times the length of that prefix.
C5_ShrinkDropsTrailingZeros ==
    [][op' = "shrink_to_fit" =>
        /\ \E n \in 0..Len(bits) :
              /\ bits' = SubSeq(bits, 1, n)
              /\ n = 0 \/ bits[n] # 0
              /\ \A k \in (n + 1)..Len(bits) : bits[k] = 0
        /\ BitsOf(bits') = BitsOf(bits)
        /\ capacity(cap') = BITS_BY_STORAGE * Len(bits')]_vars

\* After shrink_to_fit, a zero word stored before the last nonzero word.
C5_Witness ==
    /\ op = "shrink_to_fit"
    /\ Len(bits) = 2
    /\ bits[1] = 0
    /\ capacity(cap) = 2 * BITS_BY_STORAGE

\* C6: only set_bit raises capacity(), only shrink_to_fit lowers it;
\* get_bit, is_empty, count_ones, capacity, clear_bit and clear leave it,
\* and clear_bit leaves the number of stored words.
C6_CapacityChanges ==
    [][/\ capacity(cap') > capacity(cap) => op' = "set_bit"
       /\ capacity(cap') < capacity(cap) => op' = "shrink_to_fit"
       /\ op' \in {"get_bit", "is_empty", "count_ones", "capacity", "clear_bit", "clear"}
            => capacity(cap') = capacity(cap)
       /\ op' = "clear_bit" => Len(bits') = Len(bits)]_vars

\* A clear_bit call on the last stored word, which is left all zero.
C6_Witness ==
    /\ op = "clear_bit"
    /\ Len(bits) = MaxWordIndex + 1
    /\ index \div BITS_BY_STORAGE = MaxWordIndex
    /\ bits[Len(bits)] = 0

\* C7: with_capacity(n) returns an empty instance whose capacity() is the
\* smallest multiple of 8 that is >= n, and a set_bit(i) with i < n that
\* follows it leaves capacity() unchanged.
C7_WithCapacity ==
    /\ [](op = "with_capacity" =>
            /\ is_empty(bits)
            /\ count_ones(bits) = 0
            /\ capacity(cap) % BITS_BY_STORAGE = 0
            /\ capacity(cap) >= index
            /\ capacity(cap) - BITS_BY_STORAGE < index)
    /\ [][(op = "with_capacity" /\ op' = "set_bit" /\ index' < index)
            => capacity(cap') = capacity(cap)]_vars

\* The first call on an instance built with two words reserved sets a bit
\* of the second word, and the capacity is still that of two words.
C7_Witness ==
    /\ op = "set_bit"
    /\ index \div BITS_BY_STORAGE = 1
    /\ Len(bits) = 2
    /\ count_ones(bits) = 1
    /\ capacity(cap) = 2 * BITS_BY_STORAGE

\* C8: clear() leaves get_bit false for every index, is_empty() true and
\* count_ones() 0, and leaves capacity() as it was.
C8_ClearEmptiesKeepsCapacity ==
    [][op' = "clear" =>
        /\ BitsOf(bits') = {}
        /\ is_empty(bits')
        /\ count_ones(bits') = 0
        /\ capacity(cap') = capacity(cap)]_vars

\* After clear() on an instance whose storage had grown.
C8_Witness ==
    /\ op = "clear"
    /\ capacity(cap) >= (MaxWordIndex + 1) * BITS_BY_STORAGE

\* C9: is_empty() is true if and only if count_ones() is 0, if and only if
\* get_bit is false for every index.
C9_EmptinessEquivalence ==
    /\ is_empty(bits) <=> (count_ones(bits) = 0)
    /\ (count_ones(bits) = 0) <=> (BitsOf(bits) = {})

\* Every stored word is zero after a clear_bit call.
C9_Witness ==
    /\ op = "clear_bit"
    /\ Len(bits) = MaxWordIndex + 1
    /\ is_empty(bits)

\* C10: two instances on which shrink_to_fit() was the last call compare
\* equal if and only if get_bit agrees on every index; two instances with
\* the same set bits and different numbers of stored words compare unequal.
C10_ShrinkNormalises ==
    /\ (op = "shrink_to_fit" /\ other.op = "shrink_to_fit") =>
          (Eq(bits, other.bits) <=> (BitsOf(bits) = BitsOf(other.bits)))
    /\ (BitsOf(bits) = BitsOf(other.bits) /\ Len(bits) # Len(other.bits)) =>
          ~Eq(bits, other.bits)

\* Both instances shrunk to the same nonempty word sequence, the first of
\* its words zero.
C10_Witness ==
    /\ op = "shrink_to_fit"
    /\ other.op = "shrink_to_fit"
    /\ Eq(bits, other.bits)
    /\ Len(bits) = PairMaxWordIndex + 1
    /\ bits[1] = 0

====
